---------------------------- MODULE Spec2Model ----------------------------
(***************************************************************************)
(* A model of the assembler in src/Assembler/assembler.py: the pipeline of *)
(* main() (normalise_text, split_into_sections, divide_and_contextualise,  *)
(* record_labels_and_variables, place_memory_addresses, encode_metadata,   *)
(* encode_instruction_list) run on a source text drawn from a bounded set  *)
(* of programs.                                                            *)
(*                                                                         *)
(* Representation.  A Python str is a sequence of atoms; an atom is a      *)
(* TLA+ string standing for an indivisible run of characters ("MOV",       *)
(* "65536", "section.", " ", "\n", "[", "*", "=", ...).  Source texts are  *)
(* rendered so that every substring the code searches for ("section.",     *)
(* "VAR", "=", ";", whitespace, brackets, "*", "+") is an atom of its own, *)
(* so str.split, str.strip, slicing and the regular expressions of the     *)
(* code act on atoms the way they act on the characters.  A Python bytes   *)
(* value is a sequence of integers 0..255.  A Python dict is a sequence of *)
(* [k, v] records in insertion order.  A raised exception is a record      *)
(* [type, line_no, description] in the err field of a result.              *)
(***************************************************************************)
EXTENDS Integers, Sequences, FiniteSets, TLC

---------------------------------------------------------------------------
(* Static tables                                                           *)

\* The default values for the contents of the meta section.  The value is
\* the Python int 4, kept apart from the str "4" a meta line would give.
PyInt4 == <<"<int:4>">>

META_CONFIG_DEFAULT == << [k |-> <<"mem_amt">>, v |-> PyInt4] >>

OPCODES ==
    [ HLT |-> 0,
      CMP_char |-> 1, CMP_uchar |-> 2, CMP_short |-> 3, CMP_ushort |-> 4,
      CMP_int |-> 5, CMP_uint |-> 6, CMP_float |-> 7,
      JMP |-> 8, JE |-> 9, JNE |-> 10, JLT |-> 11, JLE |-> 12, JGT |-> 13,
      JGE |-> 14,
      MOV_1B |-> 16, MOV_2B |-> 17, MOV_4B |-> 18,
      LEA |-> 20,
      ADD_char |-> 32, ADD_uchar |-> 33, ADD_short |-> 34, ADD_ushort |-> 35,
      ADD_int |-> 36, ADD_uint |-> 37, ADD_float |-> 38,
      SUB_char |-> 40, SUB_uchar |-> 41, SUB_short |-> 42, SUB_ushort |-> 43,
      SUB_int |-> 44, SUB_uint |-> 45, SUB_float |-> 46,
      MUL_char |-> 48, MUL_uchar |-> 49, MUL_short |-> 50, MUL_ushort |-> 51,
      MUL_int |-> 52, MUL_uint |-> 53, MUL_float |-> 54,
      IDIV_char |-> 56, IDIV_uchar |-> 57, IDIV_short |-> 58,
      IDIV_ushort |-> 59, IDIV_int |-> 60, IDIV_uint |-> 61,
      IDIV_float |-> 62,
      MOD_char |-> 64, MOD_uchar |-> 65, MOD_short |-> 66, MOD_ushort |-> 67,
      MOD_int |-> 68, MOD_uint |-> 69, MOD_float |-> 70,
      EDIV_char |-> 72, EDIV_uchar |-> 73, EDIV_short |-> 74,
      EDIV_ushort |-> 75, EDIV_int |-> 76, EDIV_uint |-> 77,
      EDIV_float |-> 78,
      AND_1B |-> 80, AND_2B |-> 81, AND_4B |-> 82,
      OR_1B |-> 84, OR_2B |-> 85, OR_4B |-> 86,
      XOR_1B |-> 88, XOR_2B |-> 89, XOR_4B |-> 90,
      NOT_1B |-> 92, NOT_2B |-> 93, NOT_4B |-> 94,
      LSH_1B |-> 96, LSH_2B |-> 97, LSH_4B |-> 98,
      RSH_1B |-> 100, RSH_2B |-> 101, RSH_4B |-> 102 ]

OPCODE_NAMES ==
    { "HLT", "CMP", "JMP", "JE", "JNE", "JLT", "JLE", "JGT", "JGE", "MOV",
      "LEA", "ADD", "SUB", "MUL", "IDIV", "MOD", "EDIV", "AND", "OR", "XOR",
      "NOT", "LSH", "RSH" }

REGISTERS ==
    ( "eax" :> 160 @@ "ebx" :> 176 @@ "ecx" :> 192 @@ "edx" :> 208 @@
      "esi" :> 225 @@ "edi" :> 226 @@ "ebp" :> 227 @@ "esp" :> 228 @@
      "ax" :> 161 @@ "bx" :> 177 @@ "cx" :> 193 @@ "dx" :> 209 @@
      "ah" :> 162 @@ "bh" :> 178 @@ "ch" :> 194 @@ "dh" :> 210 @@
      "al" :> 163 @@ "bl" :> 179 @@ "cl" :> 195 @@ "dl" :> 211 @@
      "out" :> 240 @@ "in" :> 241 )

\* DTYPE_META[dtype].size
DTYPE_META ==
    ( "char" :> 1 @@ "uchar" :> 1 @@ "short" :> 2 @@ "ushort" :> 2 @@
      "int" :> 4 @@ "uint" :> 4 @@ "float" :> 4 @@
      "1B" :> 1 @@ "2B" :> 2 @@ "4B" :> 4 )

---------------------------------------------------------------------------
(* Exceptions and results                                                  *)

NoError == [type |-> "", line_no |-> 0, description |-> ""]

\* class AssemblyError(line_no, description)
AssemblyError(line_no, description) ==
    [type |-> "AssemblyError", line_no |-> line_no, description |-> description]

\* Every other exception the code lets escape (ValueError, KeyError,
\* TypeError, AssertionError, OverflowError, struct.error): it carries no
\* line number.
PyError(type, description) ==
    [type |-> type, line_no |-> 0, description |-> description]

Ok(v) == [err |-> NoError, v |-> v]

Raise(e) == [err |-> e, v |-> <<>>]

Failed(r) == r.err # NoError

\* str(e): the message AssemblyError.__init__ gives to Exception; any other
\* exception shows its own message.
Exception_str(e) ==
    IF e.type = "AssemblyError"
    THEN "Error on line " \o ToString(e.line_no) \o ": " \o e.description
    ELSE e.description

\* The value of F for the value of e: e is evaluated once, as a statement
\* of the code is, however often F refers to it.
With(e, F(_)) == CHOOSE r \in {F(x) : x \in {e}} : TRUE

---------------------------------------------------------------------------
(* Python str and dict operations on sequences of atoms                    *)

\* What str.strip() and str.split() treat as whitespace, and the regular
\* expression \s.
Whitespace == {" ", "\t", "\n"}

RECURSIVE lstrip(_)
lstrip(s) ==
    IF s # <<>> /\ Head(s) \in Whitespace THEN lstrip(Tail(s)) ELSE s

RECURSIVE rstrip(_)
rstrip(s) ==
    IF s # <<>> /\ s[Len(s)] \in Whitespace
    THEN rstrip(SubSeq(s, 1, Len(s) - 1))
    ELSE s

\* str.strip()
strip(s) == rstrip(lstrip(s))

\* The index of the first occurrence of atom sep in s, 0 when there is none.
Find(s, sep) ==
    IF \E i \in 1..Len(s) : s[i] = sep
    THEN CHOOSE i \in 1..Len(s) : s[i] = sep /\ \A j \in 1..(i - 1) : s[j] # sep
    ELSE 0

\* str.split(sep): the pieces between the occurrences of sep, empty pieces
\* kept, at least one piece.
RECURSIVE split(_, _)
split(s, sep) ==
    LET i == Find(s, sep)
    IN  IF i = 0
        THEN <<s>>
        ELSE <<SubSeq(s, 1, i - 1)>> \o split(SubSeq(s, i + 1, Len(s)), sep)

\* str.split(sep, maxsplit=1)
split_max1(s, sep) ==
    LET i == Find(s, sep)
    IN  IF i = 0
        THEN <<s>>
        ELSE <<SubSeq(s, 1, i - 1), SubSeq(s, i + 1, Len(s))>>

\* str.split() with no argument: the maximal runs of non-whitespace.
RECURSIVE split_ws(_)
split_ws(s) ==
    LET t == lstrip(s)
    IN  IF t = <<>>
        THEN <<>>
        ELSE LET n == IF \E i \in 1..Len(t) : t[i] \in Whitespace
                      THEN (CHOOSE i \in 1..Len(t) :
                                /\ t[i] \in Whitespace
                                /\ \A j \in 1..(i - 1) : t[j] \notin Whitespace) - 1
                      ELSE Len(t)
             IN  <<SubSeq(t, 1, n)>> \o split_ws(SubSeq(t, n + 1, Len(t)))

\* sep.join(parts)
RECURSIVE join(_, _)
join(sep, parts) ==
    IF parts = <<>> THEN <<>>
    ELSE IF Len(parts) = 1 THEN parts[1]
    ELSE parts[1] \o sep \o join(sep, Tail(parts))

\* The characters of a str as one TLA+ string, for looking a str up in a
\* table keyed by whole words.
RECURSIVE Chars(_)
Chars(s) == IF s = <<>> THEN "" ELSE Head(s) \o Chars(Tail(s))

\* key in d.keys()
dict_has(d, key) == \E i \in 1..Len(d) : d[i].k = key

\* d[key], for a key that is present
dict_get(d, key) == d[CHOOSE i \in 1..Len(d) : d[i].k = key].v

\* d[key] = value: a present key keeps its position and takes the new
\* value, a new key goes to the end.
dict_set(d, key, value) ==
    IF dict_has(d, key)
    THEN [i \in 1..Len(d) |->
            IF d[i].k = key THEN [k |-> key, v |-> value] ELSE d[i]]
    ELSE Append(d, [k |-> key, v |-> value])

---------------------------------------------------------------------------
(* 1. Text normalisation                                                   *)

\* A variant of the substitution that takes the whitespace two characters
\* at a time, as the pattern \s\s would (C13 tells it from the
\* substitution of the code).
RECURSIVE sub_whitespace_pairs(_)
sub_whitespace_pairs(line) ==
    IF line = <<>> THEN <<>>
    ELSE IF Len(line) >= 2 /\ line[1] \in Whitespace /\ line[2] \in Whitespace
         THEN <<" ">> \o sub_whitespace_pairs(Tail(Tail(line)))
         ELSE <<Head(line)>> \o sub_whitespace_pairs(Tail(line))

\* re.compile(r"\s+").sub(" ", line): every maximal run of whitespace
\* becomes one space.
RECURSIVE sub_multiple_whitespace(_)
sub_multiple_whitespace(line) ==
    IF line = <<>> THEN <<>>
    ELSE IF Head(line) \in Whitespace
         THEN <<" ">> \o sub_multiple_whitespace(lstrip(line))
         ELSE <<Head(line)>> \o sub_multiple_whitespace(Tail(line))

\* Removes comments, unnecessary whitespace and empty lines.
normalise_text(text) ==
    LET lines0 == split(text, "\n")
        \* 1.2, 1.3: drop everything after the first semicolon, then strip
        lines1 == [i \in 1..Len(lines0) |-> strip(split(lines0[i], ";")[1])]
        \* 1.4: remove empty lines
        lines2 == SelectSeq(lines1, LAMBDA line : line # <<>>)
        \* 1.5: remove duplicate whitespace
        lines3 == [i \in 1..Len(lines2) |-> sub_multiple_whitespace(lines2[i])]
        \* 1.6: put the lines back together
    IN  join(<<"\n">>, [i \in 1..Len(lines3) |-> strip(lines3[i])])

---------------------------------------------------------------------------
(* 2. Sections                                                             *)

\* The loop that fills sections_dict from parts_with_titles.
RECURSIVE fill_sections_dict(_, _)
fill_sections_dict(sections_dict, parts_with_titles) ==
    IF parts_with_titles = <<>> THEN sections_dict
    ELSE LET title == Head(parts_with_titles)[1]
             other == Tail(Head(parts_with_titles))
         IN  IF strip(title) = <<>> /\ Len(other) = 0
             THEN fill_sections_dict(sections_dict, Tail(parts_with_titles))
             ELSE fill_sections_dict(
                      dict_set(sections_dict, title,
                               strip(IF Len(other) > 0 THEN other[1] ELSE <<>>)),
                      Tail(parts_with_titles))

\* Takes the normalised text and splits it into its individual sections.
split_into_sections(text) ==
    LET parts == split(text, "section.")
        parts_with_titles == [i \in 1..Len(parts) |-> split_max1(parts[i], "\n")]
        sections_dict == fill_sections_dict(<<>>, parts_with_titles)
        missing == SelectSeq(<<"meta", "data", "text">>,
                             LAMBDA section : ~dict_has(sections_dict, <<section>>))
    IN  IF missing # <<>>
        THEN Raise(AssemblyError(-1, "No " \o missing[1] \o " section"))
        ELSE Ok(sections_dict)

---------------------------------------------------------------------------
(* Python library functions on the words of the source language            *)

\* The words with letters that source texts are made of, as (lower case,
\* upper case) pairs: the mnemonics, the registers, the type and width
\* keywords, VAR, and the names and float words programs use.
CasePairs ==
    { <<"hlt", "HLT">>, <<"cmp", "CMP">>, <<"jmp", "JMP">>, <<"je", "JE">>,
      <<"jne", "JNE">>, <<"jlt", "JLT">>, <<"jle", "JLE">>, <<"jgt", "JGT">>,
      <<"jge", "JGE">>, <<"mov", "MOV">>, <<"lea", "LEA">>, <<"add", "ADD">>,
      <<"sub", "SUB">>, <<"mul", "MUL">>, <<"idiv", "IDIV">>, <<"mod", "MOD">>,
      <<"ediv", "EDIV">>, <<"and", "AND">>, <<"or", "OR">>, <<"xor", "XOR">>,
      <<"not", "NOT">>, <<"lsh", "LSH">>, <<"rsh", "RSH">>,
      <<"eax", "EAX">>, <<"ebx", "EBX">>, <<"ecx", "ECX">>, <<"edx", "EDX">>,
      <<"esi", "ESI">>, <<"edi", "EDI">>, <<"ebp", "EBP">>, <<"esp", "ESP">>,
      <<"ax", "AX">>, <<"bx", "BX">>, <<"cx", "CX">>, <<"dx", "DX">>,
      <<"ah", "AH">>, <<"bh", "BH">>, <<"ch", "CH">>, <<"dh", "DH">>,
      <<"al", "AL">>, <<"bl", "BL">>, <<"cl", "CL">>, <<"dl", "DL">>,
      <<"out", "OUT">>, <<"in", "IN">>,
      <<"char", "CHAR">>, <<"uchar", "UCHAR">>, <<"short", "SHORT">>,
      <<"ushort", "USHORT">>, <<"int", "INT">>, <<"uint", "UINT">>,
      <<"float", "FLOAT">>, <<"1b", "1B">>, <<"2b", "2B">>, <<"4b", "4B">>,
      <<"var", "VAR">>, <<"nan", "NAN">>, <<"inf", "INF">>,
      <<"loop", "LOOP">>, <<"end", "END">>, <<"x", "X">>, <<"y", "Y">>,
      <<"mem_amt", "MEM_AMT">>, <<"stack", "STACK">>, <<"foo", "FOO">> }

lower_atom(a) ==
    IF \E p \in CasePairs : p[2] = a
    THEN (CHOOSE p \in CasePairs : p[2] = a)[1]
    ELSE a

upper_atom(a) ==
    IF \E p \in CasePairs : p[1] = a
    THEN (CHOOSE p \in CasePairs : p[1] = a)[2]
    ELSE a

\* str.lower()
lower(s) == [i \in 1..Len(s) |-> lower_atom(s[i])]

\* str.upper()
upper(s) == [i \in 1..Len(s) |-> upper_atom(s[i])]

\* A Python number: an int n, or a float (nan, inf, or tenths / 10).
PyInt(n) == [isfloat |-> FALSE, special |-> "", n |-> n]

PyFloat(special, tenths) == [isfloat |-> TRUE, special |-> special, n |-> tenths]

\* The decimal integer literals of the source texts.
IntLiterals ==
    ( "0" :> 0 @@ "1" :> 1 @@ "2" :> 2 @@ "3" :> 3 @@ "4" :> 4 @@ "5" :> 5 @@
      "8" :> 8 @@ "16" :> 16 @@ "255" :> 255 @@ "256" :> 256 @@ "300" :> 300 @@
      "65000" :> 65000 @@ "65535" :> 65535 @@ "65536" :> 65536 @@
      "65537" :> 65537 @@ "-1" :> -1 @@ "-5" :> -5 @@ "-128" :> -128 @@
      "-129" :> -129 @@ "-200" :> -200 @@ "-32768" :> -32768 @@
      "-32769" :> -32769 )

\* The float literals of the source texts that are no integer literals.
FloatLiterals ==
    ( "1.5" :> PyFloat("", 15) @@ "-2.5" :> PyFloat("", -25) @@
      "300.7" :> PyFloat("", 3007) @@
      "nan" :> PyFloat("nan", 0) @@ "inf" :> PyFloat("inf", 0) )

\* int(x) for a str x: its value, or ValueError.
int_of_str(s) ==
    IF Len(s) = 1 /\ s[1] \in DOMAIN IntLiterals
    THEN Ok(PyInt(IntLiterals[s[1]]))
    ELSE Raise(PyError("ValueError", "invalid literal for int()"))

\* float(x) for a str x: its value, or ValueError.
float_of_str(s) ==
    IF Len(s) = 1 /\ s[1] \in DOMAIN IntLiterals
    THEN Ok(PyFloat("", 10 * IntLiterals[s[1]]))
    ELSE IF Len(s) = 1 /\ s[1] \in DOMAIN FloatLiterals
    THEN Ok(FloatLiterals[s[1]])
    ELSE Raise(PyError("ValueError", "could not convert string to float"))

\* int(x) for a number x: an int is itself, a float is truncated towards
\* zero, nan raises ValueError and inf raises OverflowError.
int_of_number(x) ==
    IF ~x.isfloat THEN Ok(x)
    ELSE IF x.special = "nan"
    THEN Raise(PyError("ValueError", "cannot convert float NaN to integer"))
    ELSE IF x.special = "inf"
    THEN Raise(PyError("OverflowError", "cannot convert float infinity to integer"))
    ELSE Ok(PyInt(IF x.n >= 0 THEN x.n \div 10 ELSE -((-x.n) \div 10)))

\* The words str.isidentifier() accepts: letters, digits and underscores,
\* not starting with a digit.
IdentifierAtoms ==
    ({p[1] : p \in CasePairs} \cup {p[2] : p \in CasePairs})
        \ {"1b", "2b", "4b", "1B", "2B", "4B"}

\* str.isidentifier()
isidentifier(s) == Len(s) = 1 /\ s[1] \in IdentifierAtoms

\* The words the character class [a-zA-Z0-9] is made of.
AlnumAtoms ==
    (({p[1] : p \in CasePairs} \cup {p[2] : p \in CasePairs})
        \cup {a \in DOMAIN IntLiterals : IntLiterals[a] >= 0})
        \ {"mem_amt", "MEM_AMT"}

\* [a-zA-Z0-9]+ matches the whole of s
is_alnum_run(s) == s # <<>> /\ \A i \in 1..Len(s) : s[i] \in AlnumAtoms

\* n as width big-endian bytes, two's complement for a negative n (the
\* division rounds down)
big_endian(n, width) ==
    [i \in 1..width |-> (n \div (256 ^ (width - i))) % 256]

\* struct.pack(">B" / ">H" / ">I", n): unsigned, or struct.error.  The
\* integers of the model lie below 2^31, so no n exceeds four bytes.
pack_unsigned(n, width) ==
    IF 0 <= n /\ (width = 4 \/ n < 256 ^ width)
    THEN Ok(big_endian(n, width))
    ELSE Raise(PyError("struct.error", "format requires 0 <= number"))

\* struct.pack(">b" / ">h" / ">i", n): two's complement, or struct.error
pack_signed(n, width) ==
    IF width = 4 \/ (-((256 ^ width) \div 2) <= n /\ n < (256 ^ width) \div 2)
    THEN Ok(big_endian(n, width))
    ELSE Raise(PyError("struct.error", "format requires min <= number <= max"))

\* struct.pack(">f", x): IEEE-754 binary32, big-endian, of the floats that
\* reach it.
pack_float(x) ==
    CASE x.special = "nan" -> Ok(<<127, 192, 0, 0>>)
      [] x.special = "inf" -> Ok(<<127, 128, 0, 0>>)
      [] x.special = "" /\ x.n = 15 -> Ok(<<63, 192, 0, 0>>)
      [] x.special = "" /\ x.n = -25 -> Ok(<<192, 32, 0, 0>>)
      [] x.special = "" /\ x.n = 3007 -> Ok(<<67, 150, 89, 154>>)

\* struct.pack(">F", x): "F" is no format character of struct, so the call
\* raises struct.error whatever x is.
pack_bad_format_F(x) == Raise(PyError("struct.error", "bad char in struct format"))

---------------------------------------------------------------------------
(* Operands                                                                *)

\* Python None in an operand slot
NoOperand == [kind |-> "None"]

\* class RegisterOperand, for a regname whose lower case is a register
RegisterOperand(regname) ==
    [kind |-> "Register",
     name |-> lower(regname),
     numerical |-> REGISTERS[Chars(lower(regname))],
     bit_designation |-> 1,
     required_length |-> 1]

\* The size ImmediateOperand.__init__ gives a value
immediate_size(value) ==
    IF value.isfloat \/ value.n < -32768 \/ value.n > 65536 THEN 4
    ELSE IF value.n < -128 \/ value.n > 255 THEN 2
    ELSE 1

\* class ImmediateOperand: self.value is int(value), and float(value) when
\* int raises ValueError; any other exception of int escapes.
ImmediateOperand(value) ==
    LET as_int == int_of_number(value)
        self_value == IF ~Failed(as_int) THEN as_int
                      ELSE IF as_int.err.type = "ValueError" THEN Ok(value)
                      ELSE as_int
    IN  IF Failed(self_value) THEN self_value
        ELSE LET size == immediate_size(self_value.v)
             IN  Ok([kind |-> "Immediate",
                     value |-> self_value.v,
                     size |-> size,
                     bit_designation |-> CASE size = 4 -> 4
                                           [] size = 2 -> 3
                                           [] size = 1 -> 2,
                     required_length |-> size])

\* ImmediateOperand._get_value_format_string and get_bytes
ImmediateOperand_get_bytes(self) ==
    IF self.value.isfloat THEN pack_float(self.value)
    ELSE IF self.value.n < -32768 THEN pack_signed(self.value.n, 4)
    ELSE IF self.value.n < -128 THEN pack_signed(self.value.n, 2)
    ELSE IF self.value.n < 0 THEN pack_signed(self.value.n, 1)
    ELSE IF self.value.n < 256 THEN pack_unsigned(self.value.n, 1)
    ELSE IF self.value.n < 65536 THEN pack_unsigned(self.value.n, 2)
    ELSE pack_unsigned(self.value.n, 4)

\* class AddressOperand: addr is a str (is_str) until it is replaced by
\* the memory address, an int.
AddressOperand(address, is_str) ==
    [kind |-> "Address",
     addr |-> address,
     is_str |-> is_str,
     bit_designation |-> 5,
     required_length |-> 4]

AddressOperand_get_bytes(self) ==
    IF self.is_str
    THEN Raise(PyError("struct.error", "required argument is not an integer"))
    ELSE pack_unsigned(self.addr, 4)

\* re.search(type_N, asm_str) for the shapes with two operators: the three
\* groups, or <<>> when the expression does not match.
arithmetic_match3(asm_str, op1, op2) ==
    LET hits == {ij \in (1..Len(asm_str)) \X (1..Len(asm_str)) :
                    /\ ij[1] < ij[2]
                    /\ asm_str[ij[1]] = op1
                    /\ asm_str[ij[2]] = op2
                    /\ is_alnum_run(SubSeq(asm_str, 1, ij[1] - 1))
                    /\ is_alnum_run(SubSeq(asm_str, ij[1] + 1, ij[2] - 1))
                    /\ is_alnum_run(SubSeq(asm_str, ij[2] + 1, Len(asm_str)))}
    IN  IF hits = {} THEN <<>>
        ELSE LET ij == CHOOSE ij \in hits : TRUE
             IN  << SubSeq(asm_str, 1, ij[1] - 1),
                    SubSeq(asm_str, ij[1] + 1, ij[2] - 1),
                    SubSeq(asm_str, ij[2] + 1, Len(asm_str)) >>

\* re.search(type_N, asm_str) for the shapes with one operator
arithmetic_match2(asm_str, op) ==
    LET hits == {i \in 1..Len(asm_str) :
                    /\ asm_str[i] = op
                    /\ is_alnum_run(SubSeq(asm_str, 1, i - 1))
                    /\ is_alnum_run(SubSeq(asm_str, i + 1, Len(asm_str)))}
    IN  IF hits = {} THEN <<>>
        ELSE LET i == CHOOSE i \in hits : TRUE
             IN  << SubSeq(asm_str, 1, i - 1), SubSeq(asm_str, i + 1, Len(asm_str)) >>

\* The operand ArithmeticOperand.__init__ builds from a match; a group
\* that is None is <<>>.
arithmetic_fields(asm_str, designation, length, a, b, c) ==
    [kind |-> "Arithmetic",
     asm_str |-> asm_str,
     a |-> a, b |-> b, c |-> c,
     bit_designation |-> designation,
     required_length |-> length]

\* class ArithmeticOperand
ArithmeticOperand(asm_str) ==
    LET m10 == arithmetic_match3(asm_str, "+", "*")
        m9 == arithmetic_match3(asm_str, "*", "+")
        m8 == arithmetic_match2(asm_str, "+")
        m7 == arithmetic_match2(asm_str, "*")
    IN  IF strip(asm_str) = <<>>
        THEN Raise(PyError("ValueError", "Cannot process empty operand"))
        ELSE IF m10 # <<>>
        THEN Ok(arithmetic_fields(asm_str, 10, 3, m10[1], m10[2], m10[3]))
        ELSE IF m9 # <<>>
        THEN Ok(arithmetic_fields(asm_str, 9, 3, m9[1], m9[2], m9[3]))
        ELSE IF m8 # <<>>
        THEN Ok(arithmetic_fields(asm_str, 8, 2, m8[1], m8[2], <<>>))
        ELSE IF m7 # <<>>
        THEN Ok(arithmetic_fields(asm_str, 7, 2, m7[1], m7[2], <<>>))
        ELSE IF is_alnum_run(asm_str)
        THEN Ok(arithmetic_fields(asm_str, 6, 1, asm_str, <<>>, <<>>))
        ELSE Raise(AssemblyError(-1, "Incorrect format for arithmetic operand"))

\* ArithmeticOperand._interpret_value: a register name is its number, any
\* other value must be one of the integers 1, 2, 4, 8.
ArithmeticOperand_interpret_value(value) ==
    IF Chars(value) \in DOMAIN REGISTERS THEN Ok(REGISTERS[Chars(value)])
    ELSE LET numval == int_of_str(value)
         IN  IF Failed(numval) THEN numval
             ELSE IF numval.v.n \in {1, 2, 4, 8} THEN Ok(numval.v.n)
             ELSE Raise(PyError("ValueError",
                     "Only 2, 4 and 8 are permitted for multiplication in arithmetic operands"))

RECURSIVE arithmetic_pack(_)
arithmetic_pack(vals) ==
    IF vals = <<>> THEN Ok(<<>>)
    ELSE LET first == ArithmeticOperand_interpret_value(Head(vals))
             rest == arithmetic_pack(Tail(vals))
         IN  IF Failed(first) THEN first
             ELSE IF Failed(rest) THEN rest
             ELSE Ok(<<first.v>> \o rest.v)

ArithmeticOperand_get_bytes(self) ==
    LET bytes_ == arithmetic_pack(
                      SelectSeq(<<self.a, self.b, self.c>>, LAMBDA val : val # <<>>))
    IN  IF Failed(bytes_) THEN bytes_
        ELSE IF Len(bytes_.v) # self.required_length
        THEN Raise(PyError("AssertionError",
                "Required length and calculated byte length do not match"))
        ELSE bytes_

\* operand.get_bytes() of whichever class the operand has
Operand_get_bytes(self) ==
    CASE self.kind = "Register" -> Ok(<<self.numerical>>)
      [] self.kind = "Immediate" -> ImmediateOperand_get_bytes(self)
      [] self.kind = "Address" -> AddressOperand_get_bytes(self)
      [] self.kind = "Arithmetic" -> ArithmeticOperand_get_bytes(self)

---------------------------------------------------------------------------
(* Instructions                                                            *)

\* The Python int 0 that divide_and_contextualise uses for "no data type";
\* it is falsy and no str.
PyInt0 == <<"<int:0>">>

\* class DataInstruction
DataInstruction(instr_num, name, value, dtype) ==
    [cls |-> "DataInstruction",
     instruction_num |-> instr_num,
     name |-> name,
     value |-> value,
     data_type |-> dtype]

\* The data type TextInstruction.__init__ works out from the operands when
\* none was specified.
inferred_data_type(dtype, op1, op2) ==
    LET op1_size == IF op1 # NoOperand THEN op1.required_length ELSE 0
        op2_size == IF op2 # NoOperand THEN op2.required_length ELSE 0
        max_op_size == IF op1_size >= op2_size THEN op1_size ELSE op2_size
    IN  IF max_op_size = 1 THEN <<"char">>
        ELSE IF max_op_size = 2 THEN <<"short">>
        ELSE IF max_op_size = 4 THEN <<"int">>
        ELSE dtype

\* class TextInstruction
TextInstruction(instr_num, opcode, dtype, op1, op2, label) ==
    [cls |-> "TextInstruction",
     instruction_num |-> instr_num,
     opcode_mnemonic |-> opcode,
     data_type |-> IF dtype = PyInt0 \/ dtype = <<>>
                   THEN inferred_data_type(dtype, op1, op2)
                   ELSE dtype,
     operand1 |-> op1,
     operand2 |-> op2,
     label |-> label]

\* DataInstruction._calculate_valsize
DataInstruction_calculate_valsize(self) ==
    IF self.data_type = <<"float">> THEN Ok(4)
    ELSE LET value == int_of_str(self.value)
             abs == IF value.v.n < 0 THEN -value.v.n ELSE value.v.n
         IN  IF Failed(value) THEN value
             ELSE IF abs < 256 THEN Ok(1)
             ELSE IF abs < 65536 THEN Ok(2)
             ELSE Ok(4)

DataInstruction_get_bytes_length(self) ==
    LET valsize == DataInstruction_calculate_valsize(self)
    IN  IF Failed(valsize) THEN valsize ELSE Ok(6 + valsize.v)

\* The instruction byte DataInstruction.get_bytes picks from the data type
DataInstruction_instr(self) ==
    IF self.data_type \in {<<"char">>, <<"uchar">>} THEN Ok(<<OPCODES["MOV_1B"]>>)
    ELSE IF self.data_type \in {<<"short">>, <<"ushort">>} THEN Ok(<<OPCODES["MOV_2B"]>>)
    ELSE IF self.data_type \in {<<"int">>, <<"uint">>, <<"float">>}
    THEN Ok(<<OPCODES["MOV_4B"]>>)
    ELSE Raise(PyError("ValueError", "Cannot find size of type"))

\* The initial value DataInstruction.get_bytes packs with val_fmt_str
DataInstruction_value_bytes(self, valsize) ==
    IF self.data_type = <<"float">>
    THEN LET value == float_of_str(self.value)
         IN  IF Failed(value) THEN value ELSE pack_bad_format_F(value.v)
    ELSE LET value == int_of_str(self.value)
         IN  IF Failed(value) THEN value ELSE pack_unsigned(value.v.n, valsize)

DataInstruction_get_bytes(self, mem_table) ==
    LET instr == DataInstruction_instr(self)
        valsize == DataInstruction_calculate_valsize(self)
        \* b"R", b"S", b"T"
        operand_num == CASE valsize.v = 1 -> <<82>>
                         [] valsize.v = 2 -> <<83>>
                         [] valsize.v = 4 -> <<84>>
        value_bytes == DataInstruction_value_bytes(self, valsize.v)
    IN  IF Failed(instr) THEN instr
        ELSE IF Failed(valsize) THEN valsize
        ELSE IF ~dict_has(mem_table, self.name)
        THEN Raise(PyError("KeyError", Chars(self.name)))
        ELSE IF Failed(pack_unsigned(dict_get(mem_table, self.name), 4))
        THEN pack_unsigned(dict_get(mem_table, self.name), 4)
        ELSE IF Failed(value_bytes) THEN value_bytes
        ELSE Ok(instr.v \o operand_num
                    \o pack_unsigned(dict_get(mem_table, self.name), 4).v
                    \o value_bytes.v)

TextInstruction_get_bytes_length(self) ==
    2 + (IF self.operand1 # NoOperand THEN self.operand1.required_length ELSE 0)
      + (IF self.operand2 # NoOperand THEN self.operand2.required_length ELSE 0)

\* A variant of the opcode selection in which a float takes no width
\* alias (C6 tells it from the selection of the code).
TextInstruction_opcode_num_float_unaliased(self) ==
    LET mnemonic == Chars(self.opcode_mnemonic)
    IN  IF mnemonic \notin OPCODE_NAMES
        THEN Raise(PyError("ValueError", "Unsupported opcode mnemonic"))
        ELSE IF mnemonic \in DOMAIN OPCODES
        THEN Ok(OPCODES[mnemonic])
        ELSE IF self.data_type = PyInt0
        THEN Raise(PyError("TypeError", "can only concatenate str (not int) to str"))
        ELSE IF (mnemonic \o "_" \o Chars(self.data_type)) \in DOMAIN OPCODES
        THEN Ok(OPCODES[mnemonic \o "_" \o Chars(self.data_type)])
        ELSE IF /\ self.data_type \in {<<"char">>, <<"uchar">>}
                /\ (mnemonic \o "_1B") \in DOMAIN OPCODES
        THEN Ok(OPCODES[mnemonic \o "_1B"])
        ELSE IF /\ self.data_type \in {<<"short">>, <<"ushort">>}
                /\ (mnemonic \o "_2B") \in DOMAIN OPCODES
        THEN Ok(OPCODES[mnemonic \o "_2B"])
        ELSE IF /\ self.data_type \in {<<"int">>, <<"uint">>}
                /\ (mnemonic \o "_4B") \in DOMAIN OPCODES
        THEN Ok(OPCODES[mnemonic \o "_4B"])
        ELSE Raise(PyError("ValueError", "Mismatch between opcode and data type"))

\* The opcode number TextInstruction.get_bytes finds for the mnemonic and
\* the data type.
TextInstruction_opcode_num(self) ==
    LET mnemonic == Chars(self.opcode_mnemonic)
    IN  IF mnemonic \notin OPCODE_NAMES
        THEN Raise(PyError("ValueError", "Unsupported opcode mnemonic"))
        \* Is this the type of opcode that has no subtypes?
        ELSE IF mnemonic \in DOMAIN OPCODES
        THEN Ok(OPCODES[mnemonic])
        \* Is it based on a data type?  (str + int raises TypeError.)
        ELSE IF self.data_type = PyInt0
        THEN Raise(PyError("TypeError", "can only concatenate str (not int) to str"))
        ELSE IF (mnemonic \o "_" \o Chars(self.data_type)) \in DOMAIN OPCODES
        THEN Ok(OPCODES[mnemonic \o "_" \o Chars(self.data_type)])
        \* If neither of those, then it might be size based
        ELSE IF /\ self.data_type \in {<<"char">>, <<"uchar">>}
                /\ (mnemonic \o "_1B") \in DOMAIN OPCODES
        THEN Ok(OPCODES[mnemonic \o "_1B"])
        ELSE IF /\ self.data_type \in {<<"short">>, <<"ushort">>}
                /\ (mnemonic \o "_2B") \in DOMAIN OPCODES
        THEN Ok(OPCODES[mnemonic \o "_2B"])
        ELSE IF /\ self.data_type \in {<<"int">>, <<"uint">>, <<"float">>}
                /\ (mnemonic \o "_4B") \in DOMAIN OPCODES
        THEN Ok(OPCODES[mnemonic \o "_4B"])
        ELSE Raise(PyError("ValueError", "Mismatch between opcode and data type"))

\* The operand byte: the bit designation of operand 1 shifted left by four
\* bits plus that of operand 2; struct.pack(">B") of it.
TextInstruction_operand_byte(self) ==
    pack_unsigned(
        (IF self.operand1 # NoOperand THEN self.operand1.bit_designation ELSE 0) * 16
          + (IF self.operand2 # NoOperand THEN self.operand2.bit_designation ELSE 0),
        1)

TextInstruction_get_op1_bytes(self) ==
    IF self.operand1 # NoOperand THEN Operand_get_bytes(self.operand1) ELSE Ok(<<>>)

TextInstruction_get_op2_bytes(self) ==
    IF self.operand2 # NoOperand THEN Operand_get_bytes(self.operand2) ELSE Ok(<<>>)

\* opcode_byte + operand_byte + op1_bytes + op2_bytes, before the assertion
\* on its length
TextInstruction_instr_bytes(self) ==
    LET opcode_num == TextInstruction_opcode_num(self)
        operand_byte == TextInstruction_operand_byte(self)
        op1_bytes == TextInstruction_get_op1_bytes(self)
        op2_bytes == TextInstruction_get_op2_bytes(self)
    IN  IF Failed(opcode_num) THEN opcode_num
        ELSE IF Failed(operand_byte) THEN operand_byte
        ELSE IF Failed(op1_bytes) THEN op1_bytes
        ELSE IF Failed(op2_bytes) THEN op2_bytes
        ELSE Ok(<<opcode_num.v>> \o operand_byte.v \o op1_bytes.v \o op2_bytes.v)

TextInstruction_get_bytes(self, mem_table) ==
    LET instr_bytes == TextInstruction_instr_bytes(self)
    IN  IF Failed(instr_bytes) THEN instr_bytes
        ELSE IF Len(instr_bytes.v) # TextInstruction_get_bytes_length(self)
        THEN Raise(PyError("AssertionError", ""))
        ELSE instr_bytes

\* instr.get_bytes_length() of whichever class the instruction has
get_bytes_length(instr) ==
    IF instr.cls = "DataInstruction"
    THEN DataInstruction_get_bytes_length(instr)
    ELSE Ok(TextInstruction_get_bytes_length(instr))

\* instr.get_bytes(mem_table) of whichever class the instruction has
get_bytes(instr, mem_table) ==
    IF instr.cls = "DataInstruction"
    THEN DataInstruction_get_bytes(instr, mem_table)
    ELSE TextInstruction_get_bytes(instr, mem_table)

---------------------------------------------------------------------------
(* 3. Lines to instructions                                                *)

\* Takes a single operand and turns it into the correct type of object.
interpret_operand(string0) ==
    LET string == strip(string0)
        as_int == int_of_str(string)
        as_float == float_of_str(string)
    IN  IF string = <<>>
        THEN Raise(PyError("ValueError", "Cannot interpret an empty operand"))
        \* Is it a register name?
        ELSE IF Chars(lower(string)) \in DOMAIN REGISTERS
        THEN Ok(RegisterOperand(string))
        \* Is it an immediate value?
        ELSE IF ~Failed(as_int)
        THEN ImmediateOperand(as_int.v)
        \* it could be an immediate float
        ELSE IF ~Failed(as_float)
        THEN ImmediateOperand(as_float.v)
        \* Is it an address label/variable?
        ELSE IF isidentifier(string)
        THEN Ok(AddressOperand(string, TRUE))
        \* Is it an arithmetic expression?
        ELSE IF string[1] = "[" /\ string[Len(string)] = "]"
        THEN ArithmeticOperand(SubSeq(string, 2, Len(string) - 1))
        \* If it was none of those then it is invalid
        ELSE Raise(PyError("ValueError", "Invalid operand"))

\* [x.strip() for x in body.split("\n") if x.strip()]
stripped_lines(body) ==
    LET lines == split(body, "\n")
    IN  SelectSeq([i \in 1..Len(lines) |-> strip(lines[i])],
                  LAMBDA x : x # <<>>)

\* A variant of the loop over the meta lines in which a key that is set
\* keeps its value (C8 tells it from the loop of the code).
RECURSIVE read_meta_lines_keeping_first(_, _)
read_meta_lines_keeping_first(config_dict, meta_lines) ==
    IF meta_lines = <<>> THEN Ok(config_dict)
    ELSE LET item_value == split(Head(meta_lines), "=")
         IN  IF Len(item_value) # 2
             THEN Raise(PyError("ValueError", "wrong number of values to unpack"))
             ELSE read_meta_lines_keeping_first(
                      IF dict_has(config_dict, item_value[1]) THEN config_dict
                      ELSE dict_set(config_dict, item_value[1], item_value[2]),
                      Tail(meta_lines))

\* 4.1: the loop over the meta lines; item, value = line.split("=") raises
\* ValueError unless the line splits in two.
RECURSIVE read_meta_lines(_, _)
read_meta_lines(config_dict, meta_lines) ==
    IF meta_lines = <<>> THEN Ok(config_dict)
    ELSE LET item_value == split(Head(meta_lines), "=")
         IN  IF Len(item_value) # 2
             THEN Raise(PyError("ValueError", "wrong number of values to unpack"))
             ELSE read_meta_lines(
                      dict_set(config_dict, item_value[1], item_value[2]),
                      Tail(meta_lines))

\* One data line: name VAR type initial
read_data_line(line, instr_num) ==
    LET pieces == split(line, "VAR")
        name_rest == SelectSeq([i \in 1..Len(pieces) |-> strip(pieces[i])],
                               LAMBDA x : x # <<>>)
        dtype_initial == split_ws(name_rest[2])
    IN  IF Len(name_rest) # 2
        THEN Raise(PyError("ValueError", "wrong number of values to unpack"))
        ELSE IF Len(dtype_initial) # 2
        THEN Raise(PyError("ValueError", "wrong number of values to unpack"))
        ELSE Ok(DataInstruction(instr_num, name_rest[1],
                                dtype_initial[2], dtype_initial[1]))

\* The label of a text line: the first part when its upper case is no
\* opcode name, else the empty str.
text_line_label(parts) ==
    IF Chars(upper(parts[1])) \notin OPCODE_NAMES THEN parts[1] ELSE <<>>

\* The data type divide_and_contextualise reads off parts[1], the part
\* after the opcode: 0 when there is no such part.
text_line_dtype(parts) ==
    IF Len(parts) > 1
    THEN IF lower(parts[2]) \in {<<"char">>, <<"uchar">>, <<"short">>, <<"ushort">>,
                                 <<"int">>, <<"uint">>, <<"float">>}
         THEN lower(parts[2])
         ELSE IF upper(parts[2]) = <<"1B">> THEN <<"char">>
         ELSE IF upper(parts[2]) = <<"2B">> THEN <<"short">>
         ELSE IF upper(parts[2]) = <<"4B">> THEN <<"int">>
         ELSE <<"char">>
    ELSE PyInt0

\* Whether parts[1] was a type or width keyword, which is then deleted
text_line_has_keyword(parts) ==
    /\ Len(parts) > 1
    /\ \/ lower(parts[2]) \in {<<"char">>, <<"uchar">>, <<"short">>, <<"ushort">>,
                               <<"int">>, <<"uint">>, <<"float">>}
       \/ upper(parts[2]) \in {<<"1B">>, <<"2B">>, <<"4B">>}

\* One text line: [label] opcode [type] [operand1 [operand2]]
read_text_line(line, instr_num) ==
    With(split_ws(line), LAMBDA parts0 :
    With(text_line_label(parts0), LAMBDA label :
    With(IF label # <<>> THEN Tail(parts0) ELSE parts0, LAMBDA parts1 :
        IF parts1 = <<>>
        THEN Raise(PyError("IndexError", "list index out of range"))
        ELSE
    With(text_line_dtype(parts1), LAMBDA dtype :
    With(IF text_line_has_keyword(parts1)
         THEN <<parts1[1]>> \o SubSeq(parts1, 3, Len(parts1))
         ELSE parts1, LAMBDA parts2 :
    With(parts2[1], LAMBDA mnemonic :
    With(Tail(parts2), LAMBDA parts :
        IF Len(parts) = 0
        THEN Ok(TextInstruction(instr_num, mnemonic, dtype, NoOperand, NoOperand, label))
        ELSE IF Len(parts) > 2
        THEN Raise(PyError("Exception", "Invalid length"))
        ELSE
    With(interpret_operand(parts[1]), LAMBDA operand1 :
        IF Failed(operand1) THEN operand1
        ELSE IF Len(parts) = 1
        THEN Ok(TextInstruction(instr_num, mnemonic, dtype,
                                operand1.v, NoOperand, label))
        ELSE
    With(interpret_operand(parts[2]), LAMBDA operand2 :
        IF Failed(operand2) THEN operand2
        ELSE Ok(TextInstruction(instr_num, mnemonic, dtype,
                                operand1.v, operand2.v, label)))))))))))

\* The loops over the data lines and the text lines: each appends one
\* instruction numbered len(instruction_list).
RECURSIVE read_lines(_, _, _)
read_lines(instruction_list, lines, is_data) ==
    IF lines = <<>> THEN Ok(instruction_list)
    ELSE With(IF is_data
              THEN read_data_line(Head(lines), Len(instruction_list))
              ELSE read_text_line(Head(lines), Len(instruction_list)),
              LAMBDA instr :
                  IF Failed(instr) THEN instr
                  ELSE read_lines(Append(instruction_list, instr.v), Tail(lines), is_data))

\* Interprets the meta section to create a config dict, and creates the
\* list of instructions from the data and text sections.
divide_and_contextualise(section_dict) ==
    With(read_meta_lines(META_CONFIG_DEFAULT,
                         stripped_lines(dict_get(section_dict, <<"meta">>))),
         LAMBDA config_dict :
    With(stripped_lines(dict_get(section_dict, <<"data">>)),
         LAMBDA data_lines :
    With(stripped_lines(dict_get(section_dict, <<"text">>)),
         LAMBDA text_lines :
    With(read_lines(<<>>, data_lines, TRUE),
         LAMBDA data_list :
    With(IF Failed(data_list) THEN data_list
         ELSE read_lines(data_list.v, text_lines, FALSE),
         LAMBDA instruction_list :
             IF Failed(config_dict) THEN config_dict
             ELSE IF Failed(instruction_list) THEN instruction_list
             ELSE Ok([config_dict |-> config_dict.v,
                      instruction_list |-> instruction_list.v]))))))

---------------------------------------------------------------------------
(* 4. Labels and variables                                                 *)

\* Calculate the current total size of the variable table, taking into
\* account the data types of the entries.  An entry is (offset, dtype).
RECURSIVE calculate_var_table_size(_)
calculate_var_table_size(var_table) ==
    IF var_table = <<>> THEN Ok(0)
    ELSE LET dtype == Chars(Head(var_table).v[2])
             rest == calculate_var_table_size(Tail(var_table))
         IN  IF dtype \notin DOMAIN DTYPE_META
             THEN Raise(PyError("KeyError", dtype))
             ELSE IF Failed(rest) THEN rest
             ELSE Ok(DTYPE_META[dtype] + rest.v)

\* sum(instr.get_bytes_length() for instr in instrs)
RECURSIVE sum_bytes_length(_)
sum_bytes_length(instrs) ==
    IF instrs = <<>> THEN Ok(0)
    ELSE LET first == get_bytes_length(Head(instrs))
             rest == sum_bytes_length(Tail(instrs))
         IN  IF Failed(first) THEN first
             ELSE IF Failed(rest) THEN rest
             ELSE Ok(first.v + rest.v)

\* Work out where a given instruction number will start.
calculate_instr_start_address(instr_num, instruction_list) ==
    sum_bytes_length(SubSeq(instruction_list, 1, instr_num))

\* The first loop of record_labels_and_variables: the variable table, or
\* the exception of calculate_var_table_size.
RECURSIVE record_variables(_, _)
record_variables(var_table, instrs) ==
    IF instrs = <<>> THEN Ok(var_table)
    ELSE IF Head(instrs).cls = "DataInstruction"
    THEN LET size == calculate_var_table_size(var_table)
         IN  IF Failed(size) THEN size
             ELSE record_variables(
                      dict_set(var_table, Head(instrs).name,
                               <<size.v, Head(instrs).data_type>>),
                      Tail(instrs))
    ELSE record_variables(var_table, Tail(instrs))

\* The first loop of record_labels_and_variables: the label table.
RECURSIVE record_labels(_, _)
record_labels(label_table, instrs) ==
    IF instrs = <<>> THEN label_table
    ELSE IF Head(instrs).cls = "TextInstruction" /\ Head(instrs).label # <<>>
    THEN record_labels(
             dict_set(label_table, Head(instrs).label, Head(instrs).instruction_num),
             Tail(instrs))
    ELSE record_labels(label_table, Tail(instrs))

\* Add all the variables to the memory address table
RECURSIVE add_variables(_, _, _)
add_variables(mem_table, var_table, total_text_section_size) ==
    IF var_table = <<>> THEN mem_table
    ELSE add_variables(
             dict_set(mem_table, Head(var_table).k,
                      total_text_section_size + Head(var_table).v[1]),
             Tail(var_table), total_text_section_size)

\* Add all the labels to the memory address table
RECURSIVE add_labels(_, _, _)
add_labels(mem_table, label_table, instruction_list) ==
    IF label_table = <<>> THEN mem_table
    ELSE add_labels(
             dict_set(mem_table, Head(label_table).k,
                      calculate_instr_start_address(Head(label_table).v,
                                                    instruction_list).v),
             Tail(label_table), instruction_list)

\* Analyse the instruction list to create a table mapping variable/label
\* names to the memory addresses they refer to.
record_labels_and_variables(instruction_list) ==
    LET var_table == record_variables(<<>>, instruction_list)
        label_table == record_labels(<<>>, instruction_list)
        total_text_section_size == sum_bytes_length(instruction_list)
    IN  IF Failed(var_table) THEN var_table
        ELSE IF Failed(total_text_section_size) THEN total_text_section_size
        ELSE Ok(add_labels(
                    add_variables(<<>>, var_table.v, total_text_section_size.v),
                    label_table, instruction_list))

---------------------------------------------------------------------------
(* 5. Bytes                                                                *)

\* A variant of place_operand that gives every name the address of the
\* first entry of the table (C18 tells it from the lookup of the code).
place_operand_first_entry(mem_table, operand) ==
    IF operand.kind = "Address" /\ operand.is_str
    THEN IF dict_has(mem_table, operand.addr)
         THEN Ok(AddressOperand(mem_table[1].v, FALSE))
         ELSE Raise(PyError("KeyError", Chars(operand.addr)))
    ELSE Ok(operand)

\* The operand place_memory_addresses leaves in a slot: an address operand
\* holding a str is replaced by one holding mem_table[str].
place_operand(mem_table, operand) ==
    IF operand.kind = "Address" /\ operand.is_str
    THEN IF dict_has(mem_table, operand.addr)
         THEN Ok(AddressOperand(dict_get(mem_table, operand.addr), FALSE))
         ELSE Raise(PyError("KeyError", Chars(operand.addr)))
    ELSE Ok(operand)

\* Replace textual references in the instructions with the right memory
\* addresses.
RECURSIVE place_memory_addresses(_, _)
place_memory_addresses(mem_table, instruction_list) ==
    IF instruction_list = <<>> THEN Ok(<<>>)
    ELSE LET instr == Head(instruction_list)
             operand1 == place_operand(mem_table, instr.operand1)
             operand2 == place_operand(mem_table, instr.operand2)
             rest == place_memory_addresses(mem_table, Tail(instruction_list))
         IN  IF instr.cls = "DataInstruction"
             THEN IF Failed(rest) THEN rest ELSE Ok(<<instr>> \o rest.v)
             ELSE IF Failed(operand1) THEN operand1
             ELSE IF Failed(operand2) THEN operand2
             ELSE IF Failed(rest) THEN rest
             ELSE Ok(<< [instr EXCEPT !.operand1 = operand1.v,
                                      !.operand2 = operand2.v] >> \o rest.v)

\* str.encode(): the bytes of the words a config dict is made of.
Utf8 ==
    ( "mem_amt" :> << 109, 101, 109, 95, 97, 109, 116 >> @@
      "stack" :> << 115, 116, 97, 99, 107 >> @@
      "4" :> << 52 >> @@
      "8" :> << 56 >> @@
      "16" :> << 49, 54 >> @@
      "=" :> << 61 >> @@
      " " :> << 32 >> @@
      "&" :> << 38 >> @@
      "1" :> << 49 >> @@
      "2" :> << 50 >> )

RECURSIVE encode(_)
encode(s) == IF s = <<>> THEN <<>> ELSE Utf8[Head(s)] \o encode(Tail(s))

\* str(value) for a config value: the int 4 of the defaults, or a str
str(value) == IF value = PyInt4 THEN <<"4">> ELSE value

\* Takes the meta dictionary and writes it into bytes.
RECURSIVE encode_config_items(_)
encode_config_items(config_dict) ==
    IF config_dict = <<>> THEN <<>>
    ELSE encode(Head(config_dict).k) \o encode(<<"=">>)
            \o encode(str(Head(config_dict).v)) \o encode(<<"&">>)
            \o encode_config_items(Tail(config_dict))

encode_metadata(config_dict) ==
    encode_config_items(config_dict) \o <<0, 0, 0, 0>>

\* Turn the full instruction list into bytes.
RECURSIVE encode_instruction_list(_, _)
encode_instruction_list(instruction_list, memory_table) ==
    IF instruction_list = <<>> THEN Ok(<<>>)
    ELSE With(get_bytes(Head(instruction_list), memory_table),
              LAMBDA b :
                  IF Failed(b) THEN b
                  ELSE With(encode_instruction_list(Tail(instruction_list), memory_table),
                            LAMBDA rest :
                                IF Failed(rest) THEN rest ELSE Ok(b.v \o rest.v)))

---------------------------------------------------------------------------
(* The records of interactive mode                                         *)
(*                                                                         *)
(* In interactive mode sys.stdout is the event sink and every print writes *)
(* one record to it.  A record is kept as the label the line starts with   *)
(* and the form of what follows it: "json array" for json.dumps of a list, *)
(* "json object" for json.dumps of a dict, "text" for fields put in by     *)
(* str.format, "" when the label is all that is printed.                   *)

Record(label, payload) == [label |-> label, payload |-> payload]

\* The prints of normalise_text
normalise_text_events ==
    << Record("remove_comments", "json array"),
       Record("remove_empty_lines", "json array"),
       Record("remove_dup_wspace", "json array") >>

\* The prints of the loop over the meta lines: the loop ends with the line
\* that does not split in two.
RECURSIVE read_meta_lines_events(_)
read_meta_lines_events(meta_lines) ==
    IF meta_lines = <<>> THEN <<>>
    ELSE <<Record("read_meta_line", "json array")>>
            \o (IF Len(split(Head(meta_lines), "=")) # 2 THEN <<>>
                ELSE <<Record("ustd_meta_line", "json array")>>
                        \o read_meta_lines_events(Tail(meta_lines)))

\* The prints of the loops over the data lines and the text lines: the
\* loop ends with the line that raises.
RECURSIVE read_lines_events(_, _)
read_lines_events(lines, is_data) ==
    IF lines = <<>> THEN <<>>
    ELSE IF is_data
    THEN <<Record("read_data_line", "json array")>>
            \o (IF Failed(read_data_line(Head(lines), 0)) THEN <<>>
                ELSE <<Record("ustd_data_line", "json array")>>
                        \o read_lines_events(Tail(lines), is_data))
    ELSE <<Record("read_text_line", "json array")>>
            \o (IF Failed(read_text_line(Head(lines), 0)) THEN <<>>
                ELSE <<Record("ustd_text_line", "json array")>>
                        \o read_lines_events(Tail(lines), is_data))

\* The prints of divide_and_contextualise
divide_and_contextualise_events(section_dict) ==
    With(stripped_lines(dict_get(section_dict, <<"meta">>)),
         LAMBDA meta_lines :
    With(stripped_lines(dict_get(section_dict, <<"data">>)),
         LAMBDA data_lines :
    With(stripped_lines(dict_get(section_dict, <<"text">>)),
         LAMBDA text_lines :
        <<Record("start_proc_meta", "")>> \o read_meta_lines_events(meta_lines)
          \o (IF Failed(read_meta_lines(META_CONFIG_DEFAULT, meta_lines)) THEN <<>>
              ELSE <<Record("start_proc_data", "")>>
                     \o read_lines_events(data_lines, TRUE)
                     \o (IF Failed(read_lines(<<>>, data_lines, TRUE)) THEN <<>>
                         ELSE <<Record("start_proc_text", "")>>
                                \o read_lines_events(text_lines, FALSE))))))

\* The prints of the first loop of record_labels_and_variables: the loop
\* ends when calculate_var_table_size raises.
RECURSIVE record_loop_events(_, _)
record_loop_events(var_table, instrs) ==
    IF instrs = <<>> THEN <<>>
    ELSE IF Head(instrs).cls = "DataInstruction"
    THEN With(calculate_var_table_size(var_table),
              LAMBDA size :
                  IF Failed(size) THEN <<>>
                  ELSE <<Record("found_var", "text")>>
                          \o record_loop_events(
                                 dict_set(var_table, Head(instrs).name,
                                          <<size.v, Head(instrs).data_type>>),
                                 Tail(instrs)))
    ELSE <<Record("found_label", "text")>> \o record_loop_events(var_table, Tail(instrs))

\* The prints of record_labels_and_variables
record_labels_and_variables_events(instruction_list) ==
    record_loop_events(<<>>, instruction_list)
        \o (IF Failed(record_labels_and_variables(instruction_list)) THEN <<>>
            ELSE <<Record("mem_offsets", "json object")>>)

\* The prints of encode_instruction_list: the loop ends with the
\* instruction whose get_bytes raises.
RECURSIVE encode_instruction_list_events(_, _)
encode_instruction_list_events(instruction_list, memory_table) ==
    IF instruction_list = <<>> THEN <<>>
    ELSE IF Failed(get_bytes(Head(instruction_list), memory_table)) THEN <<>>
    ELSE <<Record("conv_instr", "text")>>
            \o encode_instruction_list_events(Tail(instruction_list), memory_table)

---------------------------------------------------------------------------
(* Source programs                                                         *)
(*                                                                         *)
(* A program is a sequence of sections [title, lines] and a style.  A meta *)
(* line is a str; a data line is [name, dtype, initial]; a text line is    *)
(* [label, mnemonic, keyword, ops], with "" for an absent label or         *)
(* keyword and ops the operand tokens.  The source text is the rendering   *)
(* of the program, plain or with comments, blank lines and extra           *)
(* whitespace.                                                             *)

MaxMeta == 2
MaxData == 2
MaxText == 2
MaxSections == 4

\* All sequences over S of length at most n
SeqsUpTo(S, n) == UNION {[1..k -> S] : k \in 0..n}

MetaLine(key, value) == <<key, "=", value>>

DataLine(name, dtype, initial) == [name |-> name, dtype |-> dtype, initial |-> initial]

TextLine(label, mnemonic, keyword, ops) ==
    [label |-> label, mnemonic |-> mnemonic, keyword |-> keyword, ops |-> ops]

Section(title, lines) == [title |-> title, lines |-> lines]

\* A program with one meta, one data and one text section, in this order
Program(meta, data, text, style) ==
    [sections |-> <<Section("meta", meta), Section("data", data), Section("text", text)>>,
     style |-> style]

\* The tokens of a line of a section with the given title
LineTokens(title, line) ==
    IF title = "data"
    THEN << <<line.name>>, <<"VAR">>, <<line.dtype>>, <<line.initial>> >>
    ELSE IF title = "text"
    THEN (IF line.label # "" THEN << <<line.label>> >> ELSE <<>>)
            \o << <<line.mnemonic>> >>
            \o (IF line.keyword # "" THEN << <<line.keyword>> >> ELSE <<>>)
            \o line.ops
    ELSE <<line>>

\* One line of the text: tokens separated by one space; in the messy style
\* indented, separated by runs of spaces and tabs, followed by a comment
\* and by a blank line.
RenderLine(title, line, style) ==
    IF style = "plain"
    THEN join(<<" ">>, LineTokens(title, line))
    ELSE <<" ", "\t">> \o join(<<" ", "\t", " ">>, LineTokens(title, line))
            \o <<" ", ";", "section.", " ", "x", "\n", " ">>

RenderSection(section, style) ==
    join(<<"\n">>,
         << <<"section.", section.title>> >>
            \o [i \in 1..Len(section.lines) |->
                    RenderLine(section.title, section.lines[i], style)])

\* The source text of a program
Render(program) ==
    (IF program.style = "plain" THEN <<>> ELSE <<";", "x", "\n", "\n">>)
        \o join(<<"\n">>,
                [i \in 1..Len(program.sections) |->
                    RenderSection(program.sections[i], program.style)])

\* Meta lines: well formed, with spaces around the sign, with no sign, with
\* two signs.
MetaLines ==
    { MetaLine("mem_amt", "8"), MetaLine("stack", "16"), MetaLine("stack", "8"),
      <<"stack", " ", "=", " ", "8">>, <<"stack">>, <<"stack", "=", "8", "=", "16">> }

\* Programs that differ in their meta section
MetaPrograms ==
    {Program(meta, <<>>, <<>>, style) :
        meta \in SeqsUpTo(MetaLines, MaxMeta), style \in {"plain", "messy"}}

\* Programs that differ in the sections they have: any sequence of
\* section titles; the first meta section sets stack=8 and a repeated one
\* stack=16, the first text section is HLT and a repeated one is empty.
SectionPrograms ==
    {[sections |->
         [i \in 1..Len(titles) |->
             LET first == \A j \in 1..(i - 1) : titles[j] # titles[i]
             IN  Section(titles[i],
                     IF titles[i] = "meta"
                     THEN <<MetaLine("stack", IF first THEN "8" ELSE "16")>>
                     ELSE IF titles[i] = "text" /\ first
                     THEN <<TextLine("", "HLT", "", <<>>)>>
                     ELSE <<>>)],
      style |-> "plain"] :
        titles \in SeqsUpTo({"meta", "data", "text"}, MaxSections)}

\* Declarations and instructions for programs of several lines: names
\* declared twice, a name that is a variable and a label, labels used
\* twice, references to variables and labels.
LayoutDataLines ==
    { DataLine("x", "char", "5"), DataLine("x", "int", "300"),
      DataLine("y", "short", "65536"), DataLine("loop", "uchar", "1") }

LayoutTextLines ==
    { TextLine("loop", "JMP", "", << <<"loop">> >>),
      TextLine("loop", "HLT", "", <<>>),
      TextLine("", "MOV", "", << <<"eax">>, <<"x">> >>),
      TextLine("x", "ADD", "int", << <<"eax">>, <<"300">> >>),
      TextLine("end", "LEA", "", << <<"eax">>, <<"[", "eax", "*", "4", "+", "ebx", "]">> >>) }

LayoutPrograms ==
    {Program(<<>>, data, text, "plain") :
        data \in SeqsUpTo(LayoutDataLines, MaxData),
        text \in SeqsUpTo(LayoutTextLines, MaxText)}

\* One declaration of every type with every kind of initial value
DataTypes == {"char", "uchar", "short", "ushort", "int", "uint", "float"}

DataInitials ==
    {"5", "255", "256", "65535", "65536", "-5", "-200", "1.5", "nan"}

DataPrograms ==
    {Program(<<>>, <<DataLine("x", dtype, initial)>>, <<>>, "plain") :
        dtype \in DataTypes \cup {"1B", "foo"}, initial \in DataInitials}

\* One instruction of every mnemonic with every type and width keyword,
\* with two register operands and with none
Keywords ==
    {"", "char", "uchar", "short", "ushort", "int", "uint", "float",
     "1B", "2B", "4B", "4b", "INT"}

OpcodePrograms ==
    {Program(<<>>, <<>>, <<TextLine("", mnemonic, keyword, ops)>>, "plain") :
        mnemonic \in OPCODE_NAMES \cup {"mov", "FOO"},
        keyword \in Keywords,
        ops \in {<<>>, << <<"eax">>, <<"EBX">> >>}}

\* One MOV with every kind of operand, without and with a width keyword
OperandTokens ==
    {<<a>> : a \in (DOMAIN IntLiterals \cup DOMAIN FloatLiterals
                        \cup {"eax", "AL", "x", "loop", "1B", "="})}
        \cup { <<"[", "eax", "]">>, <<"[", "eax", "*", "4", "]">>,
               <<"[", "eax", "+", "ebx", "]">>,
               <<"[", "eax", "*", "4", "+", "ebx", "]">>,
               <<"[", "eax", "+", "ebx", "*", "2", "]">>,
               <<"[", "EAX", "*", "3", "]">>, <<"[", "eax", "*", "3", "]">>,
               <<"[", "EAX", "*", "4", "]">>, <<"[", "]">>,
               <<"[", "eax", "+", "]">> }

OperandPrograms ==
    {Program(<<>>, <<DataLine("x", "int", "5")>>,
             <<TextLine(label, "MOV", keyword, <<op1, op2>>)>>, style) :
        label \in {"", "loop"}, keyword \in {"", "2B"},
        op1 \in {<<"eax">>}, op2 \in OperandTokens,
        style \in {"plain", "messy"}}
        \cup
    {Program(<<>>, <<>>, <<TextLine("", "MOV", "", ops)>>, "plain") :
        ops \in { << <<"300">> >>, << <<"eax">>, <<"ebx">>, <<"ecx">> >>,
                  << <<"[", "eax", "*", "4", "+", "ebx", "]">>, <<"5">> >> }}

\* One MOV of an immediate value with every width the line can declare
WidthPrograms ==
    {Program(<<>>, <<>>,
             <<TextLine("", "MOV", keyword, << <<"eax">>, <<value>> >>)>>, "plain") :
        keyword \in {"1B", "2B", "4B", "char", "short", "int"},
        value \in {"255", "256", "65000", "65535", "65537", "-129"}}

Programs ==
    MetaPrograms \cup SectionPrograms \cup LayoutPrograms \cup DataPrograms
        \cup OpcodePrograms \cup OperandPrograms \cup WidthPrograms

---------------------------------------------------------------------------
(* The pipeline of main()                                                  *)

VARIABLES
    src,                \* the program the source text was written from
    text,               \* the text read from the file
    normalised_text,
    section_dict,
    config_dict,
    instruction_list,
    mem_table,
    bytecode,
    pc,                 \* the step main() has reached
    error,              \* the exception that ended main(), if any
    interactive,        \* INTERACTIVE_MODE
    events              \* the records written to the event sink

vars == << src, text, normalised_text, section_dict, config_dict,
           instruction_list, mem_table, bytecode, pc, error, interactive,
           events >>

Init ==
    /\ src \in Programs
    /\ text = Render(src)
    /\ normalised_text = <<>>
    /\ section_dict = <<>>
    /\ config_dict = <<>>
    /\ instruction_list = <<>>
    /\ mem_table = <<>>
    /\ bytecode = <<>>
    /\ pc = "start"
    /\ error = NoError
    /\ interactive \in BOOLEAN
    /\ events = <<>>

\* The records a step writes: none unless in interactive mode
Written(records) == IF interactive THEN records ELSE <<>>

\* 1. PERFORM TEXT NORMALISATION
NormaliseText ==
    /\ pc = "start"
    /\ normalised_text' = normalise_text(text)
    /\ pc' = "normalised"
    /\ events' = events \o Written(<<Record("start_text", "json array")>>
                                       \o normalise_text_events)
    /\ UNCHANGED << src, text, section_dict, config_dict, instruction_list,
                    mem_table, bytecode, error, interactive >>

\* 2. SPLIT DOCUMENT INTO SECTIONS
SplitIntoSections ==
    /\ pc = "normalised"
    /\ \E r \in {split_into_sections(normalised_text)} :
           IF Failed(r)
           THEN /\ pc' = "failed"
                /\ error' = r.err
                /\ UNCHANGED << section_dict, events >>
           ELSE /\ pc' = "split"
                /\ section_dict' = r.v
                /\ events' = events \o Written(<<Record("split", "json array")>>)
                /\ UNCHANGED error
    /\ UNCHANGED << src, text, normalised_text, config_dict, instruction_list,
                    mem_table, bytecode, interactive >>

\* 3. DIVIDE LINES AND CONTEXTUALISE
DivideAndContextualise ==
    /\ pc = "split"
    /\ \E r \in {divide_and_contextualise(section_dict)} :
           IF Failed(r)
           THEN /\ pc' = "failed"
                /\ error' = r.err
                /\ UNCHANGED << config_dict, instruction_list >>
           ELSE /\ pc' = "contextualised"
                /\ config_dict' = r.v.config_dict
                /\ instruction_list' = r.v.instruction_list
                /\ UNCHANGED error
    /\ events' = events \o Written(divide_and_contextualise_events(section_dict))
    /\ UNCHANGED << src, text, normalised_text, section_dict, mem_table,
                    bytecode, interactive >>

\* 4. RECORD LABELS/VARIABLES
RecordLabelsAndVariables ==
    /\ pc = "contextualised"
    /\ \E r \in {record_labels_and_variables(instruction_list)} :
           IF Failed(r)
           THEN /\ pc' = "failed"
                /\ error' = r.err
                /\ UNCHANGED mem_table
           ELSE /\ pc' = "recorded"
                /\ mem_table' = r.v
                /\ UNCHANGED error
    /\ events' = events \o Written(<<Record("start_lv_detect", "")>>
                     \o record_labels_and_variables_events(instruction_list))
    /\ UNCHANGED << src, text, normalised_text, section_dict, config_dict,
                    instruction_list, bytecode, interactive >>

\* 5. CONVERT EACH LINE TO BYTES: the addresses are placed first
PlaceMemoryAddresses ==
    /\ pc = "recorded"
    /\ \E r \in {place_memory_addresses(mem_table, instruction_list)} :
           IF Failed(r)
           THEN /\ pc' = "failed"
                /\ error' = r.err
                /\ UNCHANGED instruction_list
           ELSE /\ pc' = "placed"
                /\ instruction_list' = r.v
                /\ UNCHANGED error
    /\ UNCHANGED << src, text, normalised_text, section_dict, config_dict,
                    mem_table, bytecode, interactive, events >>

\* bytecode += encode_metadata(config_dict)
EncodeMetadata ==
    /\ pc = "placed"
    /\ bytecode' = bytecode \o encode_metadata(config_dict)
    /\ pc' = "meta_encoded"
    /\ events' = events \o Written(<<Record("conv_meta", "json array")>>)
    /\ UNCHANGED << src, text, normalised_text, section_dict, config_dict,
                    instruction_list, mem_table, error, interactive >>

\* bytecode += encode_instruction_list(instruction_list, mem_table); the
\* bytecode is then handed over in the output format asked for.
EncodeInstructionList ==
    /\ pc = "meta_encoded"
    /\ \E r \in {encode_instruction_list(instruction_list, mem_table)} :
           IF Failed(r)
           THEN /\ pc' = "failed"
                /\ error' = r.err
                /\ events' = events \o Written(
                       encode_instruction_list_events(instruction_list, mem_table))
                /\ UNCHANGED bytecode
           ELSE /\ pc' = "done"
                /\ bytecode' = bytecode \o r.v
                /\ events' = events \o Written(
                       encode_instruction_list_events(instruction_list, mem_table)
                           \o <<Record("end", "json array")>>)
                /\ UNCHANGED error
    /\ UNCHANGED << src, text, normalised_text, section_dict, config_dict,
                    instruction_list, mem_table, interactive >>

Next ==
    \/ NormaliseText
    \/ SplitIntoSections
    \/ DivideAndContextualise
    \/ RecordLabelsAndVariables
    \/ PlaceMemoryAddresses
    \/ EncodeMetadata
    \/ EncodeInstructionList

Spec == Init /\ [][Next]_vars

---------------------------------------------------------------------------
(* What the properties below speak of                                      *)

\* The lines of the section of the source with the given title (of the
\* last one, when the title is repeated), read off the program.
SrcLines(title) ==
    LET at == {i \in 1..Len(src.sections) : src.sections[i].title = title}
    IN  IF at = {} THEN <<>>
        ELSE src.sections[CHOOSE i \in at : \A j \in at : j <= i].lines

SrcTitles == [i \in 1..Len(src.sections) |-> src.sections[i].title]

\* The instruction a text line of the source became
TextInstr(j) == instruction_list[Len(SrcLines("data")) + j]

\* The steps of main() by which a result exists
Sectioned == pc \in {"split", "contextualised", "recorded", "placed", "meta_encoded", "done"}
Parsed == pc \in {"contextualised", "recorded", "placed", "meta_encoded", "done"}
Recorded == pc \in {"recorded", "placed", "meta_encoded", "done"}
Placed == pc \in {"placed", "meta_encoded", "done"}

RECURSIVE SumSeq(_)
SumSeq(ns) == IF ns = <<>> THEN 0 ELSE Head(ns) + SumSeq(Tail(ns))

\* The sum of the encoded lengths of the first n instructions
LengthOfFirst(n) ==
    SumSeq([i \in 1..n |-> get_bytes_length(instruction_list[i]).v])

\* The bytes of the instruction stream from the first byte of instruction i
\* (the stream follows the metadata in the bytecode)
StreamFrom(i) ==
    SubSeq(bytecode,
           Len(encode_metadata(config_dict)) + LengthOfFirst(i - 1) + 1,
           Len(bytecode))

\* The immediate-width rule of the specification
WidthRule(v) ==
    IF -128 <= v /\ v <= 255 THEN 1
    ELSE IF -32768 <= v /\ v <= 65535 THEN 2
    ELSE 4

DesignationOfWidth(w) == CASE w = 1 -> 2 [] w = 2 -> 3 [] w = 4 -> 4

---------------------------------------------------------------------------
(* C1  Length-equals-encoding: once the addresses are placed (the symbol   *)
(* table resolves every name), get_bytes of no instruction fails its       *)
(* length assertion, and the bytes it returns are get_bytes_length many.   *)
C1_LengthEqualsEncoding ==
    Placed =>
        \A i \in 1..Len(instruction_list) :
            LET b == get_bytes(instruction_list[i], mem_table)
            IN  /\ b.err.type # "AssertionError"
                /\ ~Failed(b) => Len(b.v) = get_bytes_length(instruction_list[i]).v

(* C2  After record_labels_and_variables the address of every declared     *)
(* variable is the sum of get_bytes_length over the instruction list plus  *)
(* the sizes of the variables declared before it.                          *)
C2_VariableAddresses ==
    Recorded =>
        \A i \in 1..Len(instruction_list) :
            instruction_list[i].cls = "DataInstruction" =>
                /\ dict_has(mem_table, instruction_list[i].name)
                /\ dict_get(mem_table, instruction_list[i].name)
                     = LengthOfFirst(Len(instruction_list))
                        + SumSeq([j \in 1..(i - 1) |->
                              IF instruction_list[j].cls = "DataInstruction"
                              THEN DTYPE_META[Chars(instruction_list[j].data_type)]
                              ELSE 0])

(* C3  The symbol table maps the label of every labelled text instruction  *)
(* to the sum of the encoded lengths of the instructions before it; the    *)
(* program "loop JMP loop" encodes the operand as address 0.               *)
C3_LabelAddresses ==
    /\ Recorded =>
        \A i \in 1..Len(instruction_list) :
            (instruction_list[i].cls = "TextInstruction"
                /\ instruction_list[i].label # <<>>) =>
                /\ dict_has(mem_table, instruction_list[i].label)
                /\ dict_get(mem_table, instruction_list[i].label) = LengthOfFirst(i - 1)
    /\ (pc = "done"
          /\ src = Program(<<>>, <<>>,
                     <<TextLine("loop", "JMP", "", << <<"loop">> >>)>>, "plain"))
        => StreamFrom(1) = <<8, 80, 0, 0, 0, 0>>

(* C4  Every immediate operand built from a source token has the width of  *)
(* the rule: 4 (designation 4) for a float, and for an integer the         *)
(* smallest of 1, 2, 4 (designation 2, 3, 4) the rule allows.              *)
C4_ImmediateWidth ==
    Parsed =>
        \A j \in 1..Len(SrcLines("text")) :
            \A k \in 1..Len(SrcLines("text")[j].ops) :
                LET token == Chars(SrcLines("text")[j].ops[k])
                    operand == IF k = 1 THEN TextInstr(j).operand1
                               ELSE TextInstr(j).operand2
                    width == IF token \in DOMAIN IntLiterals
                             THEN WidthRule(IntLiterals[token])
                             ELSE 4
                IN  operand.kind = "Immediate" =>
                        /\ operand.required_length = width
                        /\ operand.bit_designation = DesignationOfWidth(width)

(* C5  A text line with no type or width keyword gets the data type of the *)
(* longest of its operands (1 -> char, 2 -> short, 4 -> int), and the      *)
(* opcode of that type: "MOV eax 300" is a short and encodes as MOV_2B.    *)
C5_InferredDataType ==
    /\ Parsed =>
        \A j \in 1..Len(SrcLines("text")) :
            LET instr == TextInstr(j)
                len1 == IF instr.operand1 # NoOperand
                        THEN instr.operand1.required_length ELSE 0
                len2 == IF instr.operand2 # NoOperand
                        THEN instr.operand2.required_length ELSE 0
                longest == IF len1 >= len2 THEN len1 ELSE len2
            IN  SrcLines("text")[j].keyword = "" =>
                    /\ longest = 1 => instr.data_type = <<"char">>
                    /\ longest = 2 => instr.data_type = <<"short">>
                    /\ longest = 4 => instr.data_type = <<"int">>
    /\ (pc = "done"
          /\ src = Program(<<>>, <<>>,
                     <<TextLine("", "MOV", "", << <<"eax">>, <<"300">> >>)>>, "plain"))
        => StreamFrom(1)[1] = OPCODES["MOV_2B"]

\* The opcode the specification selects for a mnemonic and a data type
\* (PyInt0 when the line gave none), -1 for an opcode/type mismatch
SelectedOpcode(mnemonic, data_type) ==
    LET typed == mnemonic \o "_" \o Chars(data_type)
        alias == CASE data_type \in {<<"char">>, <<"uchar">>} -> mnemonic \o "_1B"
                   [] data_type \in {<<"short">>, <<"ushort">>} -> mnemonic \o "_2B"
                   [] data_type \in {<<"int">>, <<"uint">>, <<"float">>} -> mnemonic \o "_4B"
                   [] OTHER -> ""
    IN  CASE mnemonic \in DOMAIN OPCODES -> OPCODES[mnemonic]
          [] mnemonic \notin DOMAIN OPCODES /\ typed \in DOMAIN OPCODES -> OPCODES[typed]
          [] mnemonic \notin DOMAIN OPCODES /\ typed \notin DOMAIN OPCODES
                /\ alias \in DOMAIN OPCODES -> OPCODES[alias]
          [] OTHER -> -1

InitialisingMov(data_type) ==
    CASE data_type \in {<<"char">>, <<"uchar">>} -> OPCODES["MOV_1B"]
      [] data_type \in {<<"short">>, <<"ushort">>} -> OPCODES["MOV_2B"]
      [] OTHER -> OPCODES["MOV_4B"]

(* C7  A data entry of one of the seven types encodes as the MOV of the    *)
(* type's width, the operand byte 0x50 + designation of the value's width, *)
(* the variable's address in 4 bytes and the value in 1, 2 or 4 bytes, the *)
(* width being 4 for a float and else the immediate-width rule's:          *)
(* "x VAR char 5" encodes to 7 bytes.                                      *)
C7_DataEntryEncoding ==
    Placed =>
        \A i \in 1..Len(SrcLines("data")) :
            LET line == SrcLines("data")[i]
                instr == instruction_list[i]
                b == get_bytes(instr, mem_table)
                isfloat == line.dtype = "float"
                width == IF isfloat THEN 4 ELSE WidthRule(IntLiterals[line.initial])
            IN  (/\ line.dtype \in DOMAIN DTYPE_META
                 /\ line.initial \in DOMAIN IntLiterals
                        \/ (isfloat /\ line.initial \in DOMAIN FloatLiterals)) =>
                    /\ ~Failed(b)
                    /\ Len(b.v) = 6 + width
                    /\ b.v[1] = InitialisingMov(instr.data_type)
                    /\ b.v[2] = 80 + DesignationOfWidth(width)
                    /\ SubSeq(b.v, 3, 6) = big_endian(dict_get(mem_table, instr.name), 4)
                    /\ ~isfloat =>
                           SubSeq(b.v, 7, Len(b.v)) = big_endian(IntLiterals[line.initial], width)

\* The key and the value a meta line gives: what stands before and after
\* its "="
RECURSIVE Until(_, _)
Until(s, sep) ==
    IF s = <<>> \/ Head(s) = sep THEN <<>> ELSE <<Head(s)>> \o Until(Tail(s), sep)

MetaKey(line) == Until(line, "=")
MetaValue(line) == SubSeq(line, Len(MetaKey(line)) + 2, Len(line))

\* The configuration entries of the program: the default mem_amt = 4, then
\* what the meta lines give, each key once, where it first occurred, with
\* the value of its last occurrence
GivenEntries ==
    <<[k |-> <<"mem_amt">>, v |-> <<"4">>]>>
        \o [i \in 1..Len(SrcLines("meta")) |->
               [k |-> MetaKey(SrcLines("meta")[i]), v |-> MetaValue(SrcLines("meta")[i])]]

ConfigurationEntries ==
    LET first == SelectSeq([i \in 1..Len(GivenEntries) |-> i],
                     LAMBDA i : \A j \in 1..(i - 1) : GivenEntries[j].k # GivenEntries[i].k)
        last(key) == CHOOSE i \in 1..Len(GivenEntries) :
                        /\ GivenEntries[i].k = key
                        /\ \A j \in (i + 1)..Len(GivenEntries) : GivenEntries[j].k # key
    IN  [n \in 1..Len(first) |->
            [k |-> GivenEntries[first[n]].k,
             v |-> GivenEntries[last(GivenEntries[first[n]].k)].v]]

RECURSIVE MetadataRegion(_)
MetadataRegion(entries) ==
    IF entries = <<>> THEN <<0, 0, 0, 0>>
    ELSE encode(Head(entries).k) \o <<61>> \o encode(Head(entries).v) \o <<38>>
            \o MetadataRegion(Tail(entries))

(* C8  The metadata region of the bytecode is, for each configuration      *)
(* entry in insertion order (defaults first, a repeated key at its first   *)
(* position with its last value), key "=" value "&", then four zero bytes; *)
(* the empty program assembles to "mem_amt=4&" and four zero bytes.        *)
C8_MetadataRegion ==
    /\ pc \in {"meta_encoded", "done"} =>
          SubSeq(bytecode, 1, Len(MetadataRegion(ConfigurationEntries)))
              = MetadataRegion(ConfigurationEntries)
    /\ (pc = "done" /\ src = Program(<<>>, <<>>, <<>>, "plain")) =>
          bytecode = <<109, 101, 109, 95, 97, 109, 116, 61, 52, 38, 0, 0, 0, 0>>

\* The metadata of a program was encoded that gives stack = 16 and then
\* mem_amt = 8: mem_amt stays first and has its last value.
C8_Witness ==
    /\ pc = "meta_encoded"
    /\ SrcLines("meta") = <<MetaLine("stack", "16"), MetaLine("mem_amt", "8")>>
    /\ bytecode = <<109, 101, 109, 95, 97, 109, 116, 61, 56, 38,
                    115, 116, 97, 99, 107, 61, 49, 54, 38, 0, 0, 0, 0>>

\* The names the program declares: its variables, then its labels
DeclaredNames ==
    [i \in 1..Len(SrcLines("data")) |-> SrcLines("data")[i].name]
        \o SelectSeq([j \in 1..Len(SrcLines("text")) |-> SrcLines("text")[j].label],
                     LAMBDA label : label # "")

HasRepeat(names) ==
    \E i, j \in 1..Len(names) : i < j /\ names[i] = names[j]

(* C9  A program that declares a name twice (two variables, two labels, or *)
(* a variable and a label) does not assemble: no symbol table and no bytes *)
(* are produced for it.                                                    *)
C9_DuplicateSymbolRejected ==
    HasRepeat(DeclaredNames) => ~Recorded

(* C10 A source that lacks one of the sections meta, data, text, or that   *)
(* has a section name more than once, is rejected by the section split     *)
(* with an assembly error.                                                 *)
C10_SectionsChecked ==
    ((\E title \in {"meta", "data", "text"} : \A i \in 1..Len(SrcTitles) : SrcTitles[i] # title)
        \/ HasRepeat(SrcTitles)) =>
        /\ ~Sectioned
        /\ pc = "failed" => error.type = "AssemblyError"

---------------------------------------------------------------------------
(* normalise_text on any text, and on its own result                       *)

MaxNormalise == 5

\* What a text is made of here: whitespace, the line break, the comment
\* sign and a word
NormaliseAtoms == {" ", "\t", "\n", ";", "a"}

\* Any text is given; src keeps it.
NormaliseInit ==
    /\ src \in SeqsUpTo(NormaliseAtoms, MaxNormalise)
    /\ text = src
    /\ normalised_text = <<>>
    /\ section_dict = <<>>
    /\ config_dict = <<>>
    /\ instruction_list = <<>>
    /\ mem_table = <<>>
    /\ bytecode = <<>>
    /\ pc = "start"
    /\ error = NoError
    /\ interactive = FALSE
    /\ events = <<>>

\* normalise_text is given the text it returned
NormaliseAgain ==
    /\ pc = "normalised"
    /\ text' = normalised_text
    /\ normalised_text' = normalise_text(normalised_text)
    /\ pc' = "normalised_again"
    /\ UNCHANGED << src, section_dict, config_dict, instruction_list,
                    mem_table, bytecode, error, interactive, events >>

NormaliseNext ==
    \/ NormaliseText
    \/ NormaliseAgain

NormaliseSpec == NormaliseInit /\ [][NormaliseNext]_vars

(* C13 normalise_text is idempotent: given the text it returned for any    *)
(* text, it returns that text again.                                       *)
C13_NormaliseIdempotent ==
    pc = "normalised_again" => normalised_text = text

\* A text with a comment, a run of whitespace and a trailing blank was
\* normalised, and its result normalised again.
C13_Witness ==
    /\ pc = "normalised_again"
    /\ src = <<"a", " ", "\t", "a", ";">>
    /\ text = <<"a", " ", "a">>

\* What main() hands over in the output format asked for (the hex dump,
\* the byte literal, the return value, the file): the bytecode, once the
\* instruction list is encoded; nothing when an exception ended main(),
\* and nothing in interactive mode, where main() returns after the last
\* record.
Output == IF pc = "done" /\ ~interactive THEN bytecode ELSE <<>>

(* C11 Every failure of a step of the pipeline is an AssemblyError that    *)
(* carries a line number (or -1) and a description and reads "Error on     *)
(* line N: <description>", and a failing run hands over no bytecode.       *)
C11_FailuresAreAssemblyErrors ==
    pc = "failed" =>
        /\ error.type = "AssemblyError"
        /\ Exception_str(error)
             = "Error on line " \o ToString(error.line_no) \o ": " \o error.description
        /\ Output = <<>>

\* The width in bytes a type or width keyword declares
KeywordWidth(keyword) ==
    CASE keyword \in {"1B", "char", "uchar"} -> 1
      [] keyword \in {"2B", "short", "ushort"} -> 2
      [] keyword \in {"4B", "int", "uint", "float"} -> 4

(* C12 A text line whose type or width keyword is narrower than one of its *)
(* immediate operands (MOV 1B eax 65000) does not assemble, and no         *)
(* instruction is encoded whose opcode is of a width smaller than the      *)
(* width of an immediate operand it carries.                               *)
C12_ImmediateFitsDeclaredWidth ==
    pc = "done" =>
        /\ \A j \in 1..Len(SrcLines("text")) :
             LET line == SrcLines("text")[j]
             IN  line.keyword \in {"1B", "2B", "4B", "char", "uchar", "short",
                                   "ushort", "int", "uint", "float"} =>
                    \A k \in 1..Len(line.ops) :
                        Chars(line.ops[k]) \in DOMAIN IntLiterals =>
                            WidthRule(IntLiterals[Chars(line.ops[k])])
                                <= KeywordWidth(line.keyword)
        /\ \A i \in 1..Len(instruction_list) :
             LET instr == instruction_list[i]
             IN  (/\ instr.cls = "TextInstruction"
                  /\ Chars(instr.opcode_mnemonic) \notin DOMAIN OPCODES
                  /\ Chars(instr.data_type) \in DOMAIN DTYPE_META) =>
                    /\ instr.operand1.kind = "Immediate" =>
                          instr.operand1.required_length <= DTYPE_META[Chars(instr.data_type)]
                    /\ instr.operand2.kind = "Immediate" =>
                          instr.operand2.required_length <= DTYPE_META[Chars(instr.data_type)]

(* C14 In interactive mode every record written to the event sink, at     *)
(* every checkpoint of the pipeline, is the label of the checkpoint        *)
(* followed by a JSON array of payload values.                             *)
C14_RecordsAreLabelAndJsonArray ==
    interactive =>
        \A n \in 1..Len(events) : events[n].payload = "json array"

\* The operand of text line j of the source in place k, as it was parsed
SrcOperand(j, k) == IF k = 1 THEN TextInstr(j).operand1 ELSE TextInstr(j).operand2

\* Whether the words after the mnemonic of the text line are its operands:
\* the mnemonic is a known one in some letter case (a word that is not is
\* read as a label, and the word after it as the mnemonic).
OperandsInPlace(line) == upper_atom(line.mnemonic) \in OPCODE_NAMES

\* Whether one of the rules of interpret_operand accepts the token
UnderSomeRule(token) ==
    \/ Chars(lower(token)) \in DOMAIN REGISTERS
    \/ Chars(token) \in DOMAIN IntLiterals
    \/ Chars(token) \in DOMAIN FloatLiterals
    \/ isidentifier(token)
    \/ (token[1] = "[" /\ token[Len(token)] = "]")

\* Whether the operand is what the first rule that applies to the token
\* makes of it
ByFirstRule(token, operand) ==
    IF Chars(lower(token)) \in DOMAIN REGISTERS
    THEN operand.kind = "Register" /\ operand.name = lower(token)
    ELSE IF Chars(token) \in DOMAIN IntLiterals
    THEN operand.kind = "Immediate" /\ operand.value = PyInt(IntLiterals[Chars(token)])
    ELSE IF Chars(token) \in DOMAIN FloatLiterals
    THEN operand.kind = "Immediate" /\ operand.value = FloatLiterals[Chars(token)]
    ELSE IF isidentifier(token)
    THEN operand.kind = "Address" /\ operand.is_str /\ operand.addr = token
    ELSE IF token[1] = "[" /\ token[Len(token)] = "]"
    THEN operand.kind = "Arithmetic"
            /\ operand.asm_str = SubSeq(token, 2, Len(token) - 1)
    ELSE FALSE

(* C15 Every operand token of a text line is classified by the first rule  *)
(* that applies: a register name in any case is a Register, an integer is  *)
(* an Immediate of that value, a float is an Immediate that keeps the      *)
(* float value, an identifier is an Address holding the name, a token in   *)
(* brackets is an Arithmetic operand on the inner text; a token under none *)
(* of the rules is rejected as an invalid operand.                         *)
C15_OperandClassification ==
    /\ pc = "contextualised" =>
          \A j \in 1..Len(SrcLines("text")) :
              OperandsInPlace(SrcLines("text")[j]) =>
                  \A k \in 1..Len(SrcLines("text")[j].ops) :
                      ByFirstRule(SrcLines("text")[j].ops[k], SrcOperand(j, k))
    /\ (pc = "failed" /\ error.description = "Invalid operand") =>
          \E j \in 1..Len(SrcLines("text")) :
              \E k \in 1..Len(SrcLines("text")[j].ops) :
                  ~UnderSomeRule(SrcLines("text")[j].ops[k])

\* The inner text of a bracketed token
Inner(token) == SubSeq(token, 2, Len(token) - 1)

\* The values of an inner expression (its odd places) and the operators
\* between them (its even places)
InnerValues(inner) == [n \in 1..((Len(inner) + 1) \div 2) |-> inner[2 * n - 1]]
InnerOperators(inner) == [n \in 1..(Len(inner) \div 2) |-> inner[2 * n]]

\* The designation of the shape of an inner expression: a 6, a*b 7, a+b 8,
\* a*b+c 9, a+b*c 10, and 0 for any other shape
ShapeDesignation(inner) ==
    IF Len(inner) % 2 = 0 \/ \E n \in 1..Len(inner) : (n % 2 = 1) = (inner[n] \in {"+", "*"})
    THEN 0
    ELSE CASE InnerOperators(inner) = <<>> -> 6
           [] InnerOperators(inner) = <<"*">> -> 7
           [] InnerOperators(inner) = <<"+">> -> 8
           [] InnerOperators(inner) = <<"*", "+">> -> 9
           [] InnerOperators(inner) = <<"+", "*">> -> 10
           [] OTHER -> 0

\* The byte of an inner value: the code of a register named in any letter
\* case, one of 1, 2, 4, 8 as itself, and -1 for any other value
InnerValueCode(value) ==
    IF lower_atom(value) \in DOMAIN REGISTERS THEN REGISTERS[lower_atom(value)]
    ELSE IF value \in {"1", "2", "4", "8"} THEN IntLiterals[value]
    ELSE -1

\* Whether the token is written in brackets
Bracketed(token) == Len(token) >= 2 /\ token[1] = "[" /\ token[Len(token)] = "]"

(* C16 The inner expression of every bracketed operand has one of the      *)
(* shapes a, a*b, a+b, a*b+c, a+b*c, with designation 6..10 and length     *)
(* 1, 2, 2, 3, 3; a register name in any letter case encodes as its code   *)
(* and an integer of 1, 2, 4, 8 as itself; with any other inner value or   *)
(* shape the operand is not classified.  [eax*4+ebx] has designation 9,    *)
(* length 3 and the bytes A0 04 B0.                                        *)
C16_ArithmeticOperand ==
    \A j \in 1..Len(SrcLines("text")) :
        \A k \in 1..Len(SrcLines("text")[j].ops) :
            LET token == SrcLines("text")[j].ops[k]
                inner == Inner(token)
                codes == [n \in 1..Len(InnerValues(inner)) |->
                              InnerValueCode(InnerValues(inner)[n])]
            IN  (OperandsInPlace(SrcLines("text")[j]) /\ Bracketed(token)) =>
                  /\ Parsed =>
                        /\ ShapeDesignation(inner) # 0
                        /\ \A n \in 1..Len(codes) : codes[n] # -1
                        /\ SrcOperand(j, k).kind = "Arithmetic"
                        /\ SrcOperand(j, k).bit_designation = ShapeDesignation(inner)
                        /\ SrcOperand(j, k).required_length = Len(codes)
                        /\ Operand_get_bytes(SrcOperand(j, k)) = Ok(codes)
                  /\ (Parsed /\ inner = <<"eax", "*", "4", "+", "ebx">>) =>
                        /\ SrcOperand(j, k).bit_designation = 9
                        /\ SrcOperand(j, k).required_length = 3
                        /\ Operand_get_bytes(SrcOperand(j, k)) = Ok(<<160, 4, 176>>)

\* Whether the token is a known mnemonic, compared without regard to case
KnownMnemonic(token) == Len(token) = 1 /\ upper_atom(token[1]) \in OPCODE_NAMES

(* C17 A text line whose first token is a known mnemonic in any letter     *)
(* case is an unlabelled instruction of that mnemonic and has the bytes of *)
(* the line written in upper case; any other first token is the label of   *)
(* the line, and the line is parsed only if the token after it is a known  *)
(* mnemonic.                                                               *)
C17_LabelAndMnemonic ==
    \A j \in 1..Len(SrcLines("text")) :
        LET tokens == LineTokens("text", SrcLines("text")[j])
        IN  IF KnownMnemonic(tokens[1])
            THEN /\ Parsed =>
                      /\ TextInstr(j).label = <<>>
                      /\ upper(TextInstr(j).opcode_mnemonic) = upper(tokens[1])
                 /\ Placed =>
                      get_bytes(TextInstr(j), mem_table)
                        = get_bytes([TextInstr(j) EXCEPT
                                        !.opcode_mnemonic = upper(@)], mem_table)
            ELSE Parsed =>
                      /\ TextInstr(j).label = tokens[1]
                      /\ Len(tokens) >= 2
                      /\ KnownMnemonic(tokens[2])
                      /\ upper(TextInstr(j).opcode_mnemonic) = upper(tokens[2])

\* Whether place_memory_addresses made the operand new of the operand old:
\* an Address holds the number the table gives for the name it held, any
\* other operand (and an empty slot) is as it was.
Patched(old, new) ==
    IF old.kind = "Address"
    THEN new = AddressOperand(dict_get(mem_table, old.addr), FALSE)
    ELSE new = old

\* Whether the instruction new is the instruction old with its names
\* replaced and nothing else changed
PatchedInstruction(old, new) ==
    IF old.cls = "DataInstruction" THEN new = old
    ELSE /\ new.cls = old.cls
         /\ new.instruction_num = old.instruction_num
         /\ new.label = old.label
         /\ new.opcode_mnemonic = old.opcode_mnemonic
         /\ new.data_type = old.data_type
         /\ Patched(old.operand1, new.operand1)
         /\ Patched(old.operand2, new.operand2)
         /\ new.operand1.kind = "Address" => ~new.operand1.is_str
         /\ new.operand2.kind = "Address" => ~new.operand2.is_str
         /\ DOMAIN new = DOMAIN old
         /\ get_bytes_length(new) = get_bytes_length(old)

(* C18 When place_memory_addresses completes, every Address operand of     *)
(* every text instruction holds the number the table gives for the name it *)
(* held before and none holds a name, every other field of every text      *)
(* instruction and every data instruction is unchanged, the table is       *)
(* unchanged, and each instruction has the length it had before.           *)
C18_PlaceMemoryAddressesFrame ==
    [][(pc = "recorded" /\ pc' = "placed") =>
          /\ Len(instruction_list') = Len(instruction_list)
          /\ \A i \in 1..Len(instruction_list) :
                PatchedInstruction(instruction_list[i], instruction_list'[i])
          /\ mem_table' = mem_table]_vars

\* place_memory_addresses has completed on a list with a declaration, an
\* instruction that names the variable and a label that is not the first
\* entry of the table.
C18_Witness ==
    /\ pc = "placed"
    /\ Len(mem_table) >= 2
    /\ \E i \in 1..Len(instruction_list) : instruction_list[i].cls = "DataInstruction"
    /\ \E i \in 1..Len(instruction_list) :
          /\ instruction_list[i].cls = "TextInstruction"
          /\ instruction_list[i].operand1.kind = "Address"
          /\ instruction_list[i].operand1.addr # mem_table[1].v
    /\ \E i \in 1..Len(instruction_list) :
          /\ instruction_list[i].cls = "TextInstruction"
          /\ instruction_list[i].operand2.kind = "Address"
          /\ ~instruction_list[i].operand2.is_str

\* Whether the meta line has a "="
HasSign(line) == \E n \in 1..Len(line) : line[n] = "="

\* The defaults overlaid with the pairs of the meta lines, each split at
\* its first "=" with key and value trimmed
RECURSIVE OverlayMeta(_, _)
OverlayMeta(config, lines) ==
    IF lines = <<>> THEN config
    ELSE OverlayMeta(dict_set(config, strip(MetaKey(Head(lines))),
                                      strip(MetaValue(Head(lines)))),
                     Tail(lines))

(* C19 Every meta line is split at its first "=" only, key and value are   *)
(* trimmed and the pair is overlaid onto the defaults; the meta section is *)
(* rejected only for a line with no "=", and always for such a line.       *)
C19_MetaLines ==
    /\ Parsed =>
          /\ \A n \in 1..Len(SrcLines("meta")) : HasSign(SrcLines("meta")[n])
          /\ config_dict = OverlayMeta(META_CONFIG_DEFAULT, SrcLines("meta"))
    /\ (/\ pc = "failed"
        /\ section_dict # <<>>
        /\ Failed(read_meta_lines(META_CONFIG_DEFAULT,
                                  stripped_lines(dict_get(section_dict, <<"meta">>))))) =>
          \E n \in 1..Len(SrcLines("meta")) : ~HasSign(SrcLines("meta")[n])

=============================================================================
